---- MODULE Spec2Model ----
(***************************************************************************)
(* Voice inventory assistant (src/src/App.js): the React state of          *)
(* VoiceInventoryApp, the speech recognition callbacks registered once by  *)
(* the mount effect and its cleanup, the command interpreter               *)
(* (processVoiceCommand), the reconciler (updateInventory) and item        *)
(* registration (addSampleItem). Spec is the in-memory component (lines    *)
(* 1-296), SpecFair the same with the engine's end event fair, SpecStore   *)
(* the store-backed component (lines 297-672).                             *)
(*                                                                         *)
(* Text is kept as text: transcripts, item names and status messages are   *)
(* strings, and toLowerCase, the four regular expressions, parseInt, trim, *)
(* includes and the template literals are computed character by character. *)
(***************************************************************************)
EXTENDS Integers, Sequences, FiniteSets, TLC

VARIABLES
    inventory,      \* useState: the ledger, a sequence of item records
    isListening,    \* useState: the listening flag
    transcript,     \* useState: the transcript box
    status,         \* useState: the status line
    updatedItemId,  \* useState: the highlighted item id, or null
    recognition,    \* the SpeechRecognition session's own state
    timers,         \* pending setTimeout callbacks that clear the highlight
    now,            \* the clock read by new Date()
    startThrew,     \* a start() call has thrown InvalidStateError
    alerted,        \* the alert of toggleVoiceRecognition has been shown
    mounted,        \* the component is mounted
    store,          \* store-backed component: the rows of the inventory table
    pending,        \* store-backed component: the requests under way
    loading         \* store-backed component: useState loading

\* The variables that only the store-backed component uses.
storeVars == <<store, pending, loading>>

vars == <<inventory, isListening, transcript, status, updatedItemId,
          recognition, timers, now, startThrew, alerted, mounted, store,
          pending, loading>>

----------------------------------------------------------------------------
(* Bounds of the model. *)

\* The clock stops the model after this many ledger events (voice results
\* and registrations).
MaxClock == 3

\* The same for the store-backed component, whose requests add steps.
MaxStoreClock == 2

----------------------------------------------------------------------------
(* Text primitives. *)

\* The character of s at position i (1-based), as a one-character string.
Char(s, i) == SubSeq(s, i, i)

Digits == "0123456789"
UpperCase == "ABCDEFGHIJKLMNOPQRSTUVWXYZ"
LowerCase == "abcdefghijklmnopqrstuvwxyz"

\* \d of the regular expressions.
IsDigit(c) == \E d \in 1..10 : Char(Digits, d) = c

\* \s of the regular expressions (a transcript's white space is the blank).
IsSpace(c) == c = " "

\* . of the regular expressions: any character but a line terminator.
IsDot(c) == c /= "\n"

Min(S) == CHOOSE x \in S : \A y \in S : x <= y
Max(S) == CHOOSE x \in S : \A y \in S : x >= y

LowerChar(c) ==
    IF \E k \in 1..26 : Char(UpperCase, k) = c
    THEN Char(LowerCase, CHOOSE k \in 1..26 : Char(UpperCase, k) = c)
    ELSE c

\* String.prototype.toLowerCase
RECURSIVE toLowerCase(_)
toLowerCase(s) ==
    IF s = "" THEN ""
    ELSE LowerChar(Char(s, 1)) \o toLowerCase(SubSeq(s, 2, Len(s)))

\* String.prototype.trim
RECURSIVE trim(_)
trim(s) ==
    IF s = "" THEN ""
    ELSE IF IsSpace(Char(s, 1)) THEN trim(SubSeq(s, 2, Len(s)))
    ELSE IF IsSpace(Char(s, Len(s))) THEN trim(SubSeq(s, 1, Len(s) - 1))
    ELSE s

\* String.prototype.includes
includes(hay, needle) ==
    \E i \in 1..(Len(hay) - Len(needle) + 1) :
        SubSeq(hay, i, i + Len(needle) - 1) = needle

DigitValue(c) == (CHOOSE d \in 1..10 : Char(Digits, d) = c) - 1

\* parseInt of a string of decimal digits (what (\d+) captures).
RECURSIVE parseInt(_)
parseInt(s) ==
    IF s = "" THEN 0
    ELSE parseInt(SubSeq(s, 1, Len(s) - 1)) * 10 + DigitValue(Char(s, Len(s)))

\* Number to string, as a template literal prints a non-negative integer.
RECURSIVE NatToString(_)
NatToString(n) ==
    IF n < 10 THEN Char(Digits, n + 1)
    ELSE NatToString(n \div 10) \o Char(Digits, (n % 10) + 1)

\* Template literals print a negative number with a leading minus sign.
NumberToString(n) == IF n < 0 THEN "-" \o NatToString(0 - n) ELSE NatToString(n)

----------------------------------------------------------------------------
(* Regular expressions: a pattern is a sequence of nodes, matched with     *)
(* backtracking in the order JavaScript tries the alternatives.            *)

\* A run of literal characters.
Lit(w) == [j \in 1..Len(w) |-> [t |-> "chr", c |-> Char(w, j)]]

\* cls+ (greedy) or cls+? (lazy); cap is the capture group around it, or 0.
Rep(cls, greedy, cap) == <<[t |-> "rep", cls |-> cls, greedy |-> greedy, cap |-> cap]>>

\* (?:sub)?
Opt(sub) == <<[t |-> "opt", sub |-> sub]>>

InClass(cls, c) ==
    IF cls = "s" THEN IsSpace(c)
    ELSE IF cls = "d" THEN IsDigit(c)
    ELSE IsDot(c)

\* The number of consecutive characters of class cls in s from position i.
RECURSIVE RunLength(_, _, _)
RunLength(cls, s, i) ==
    IF i <= Len(s) /\ InClass(cls, Char(s, i))
    THEN 1 + RunLength(cls, s, i + 1)
    ELSE 0

NoMatch == [ok |-> FALSE, caps |-> <<"", "">>]

\* The match of pat at position i of s that backtracking finds first, with
\* the captures caps made so far. The i flag folds the case of the input.
RECURSIVE MatchHere(_, _, _, _)
MatchHere(pat, s, i, caps) ==
    IF pat = <<>> THEN [ok |-> TRUE, caps |-> caps]
    ELSE LET n == Head(pat)
             rest == Tail(pat)
         IN  IF n.t = "chr"
             THEN IF i <= Len(s) /\ LowerChar(Char(s, i)) = n.c
                  THEN MatchHere(rest, s, i + 1, caps)
                  ELSE NoMatch
             ELSE IF n.t = "opt"
             THEN LET taken == MatchHere(n.sub \o rest, s, i, caps)
                  IN  IF taken.ok THEN taken ELSE MatchHere(rest, s, i, caps)
             ELSE LET run == RunLength(n.cls, s, i)
                      try(k) ==
                          MatchHere(rest, s, i + k,
                                    IF n.cap = 0 THEN caps
                                    ELSE [caps EXCEPT ![n.cap] = SubSeq(s, i, i + k - 1)])
                      good == {k \in 1..run : try(k).ok}
                  IN  IF good = {} THEN NoMatch
                      ELSE IF n.greedy THEN try(Max(good))
                      ELSE try(Min(good))

\* String.prototype.match with a pattern without the g flag: the match at
\* the leftmost position where one exists.
match(s, pat) ==
    LET starts == {q \in 1..(Len(s) + 1) : MatchHere(pat, s, q, <<"", "">>).ok}
    IN  IF starts = {} THEN NoMatch
        ELSE MatchHere(pat, s, Min(starts), <<"", "">>)

\* RegExp.prototype.test
test(pat, s) == match(s, pat).ok

----------------------------------------------------------------------------
(* The command interpreter: processVoiceCommand up to its call of          *)
(* updateInventory.                                                        *)

S == Rep("s", TRUE, 0)

\* const patterns = [ ... ]
patterns == <<
    \* /(?:i\s+)?used\s+(\d+)\s+(.+)/i
    Opt(Lit("i") \o S) \o Lit("used") \o S \o Rep("d", TRUE, 1) \o S
        \o Rep(".", TRUE, 2),
    \* /remove\s+(\d+)\s+(.+)/i
    Lit("remove") \o S \o Rep("d", TRUE, 1) \o S \o Rep(".", TRUE, 2),
    \* /add\s+(\d+)\s+(.+?)(?:\s+to\s+inventory)?/i
    Lit("add") \o S \o Rep("d", TRUE, 1) \o S \o Rep(".", FALSE, 2)
        \o Opt(S \o Lit("to") \o S \o Lit("inventory")),
    \* /(\d+)\s+(.+?)\s+used/i
    Rep("d", TRUE, 1) \o S \o Rep(".", FALSE, 2) \o S \o Lit("used") >>

\* The loop of processVoiceCommand without its break: the last pattern that
\* matches is the one whose captures are used.
lastPattern(lowerCommand, k) ==
    LET K == {j \in k..Len(patterns) : match(lowerCommand, patterns[j]).ok}
    IN  IF K = {} THEN 0 ELSE Max(K)

\* for (const pattern of patterns) { ... break; }: the index of the first
\* pattern from k on that matches lowerCommand, or 0 when none does.
RECURSIVE firstPattern(_, _)
firstPattern(lowerCommand, k) ==
    IF k > Len(patterns) THEN 0
    ELSE IF match(lowerCommand, patterns[k]).ok THEN k
    ELSE firstPattern(lowerCommand, k + 1)

\* isAdding taken from the start of the command only, as /^add/i would.
isAddingOf_Anchored(lowerCommand) == SubSeq(lowerCommand, 1, 3) = "add"

\* const isAdding = /add/i.test(lowerCommand)
isAddingOf(lowerCommand) == test(Lit("add"), lowerCommand)

\* What processVoiceCommand hands to updateInventory for a command: the
\* pattern that matched (0: none, the command is not understood), and the
\* arguments quantity, itemName and isAdding.
Interpret(command) ==
    LET lowerCommand == toLowerCase(command)
        k == firstPattern(lowerCommand, 1)
    IN  IF k = 0
        THEN [pattern |-> 0, quantity |-> 0, itemName |-> "", isAdding |-> FALSE]
        ELSE LET m == match(lowerCommand, patterns[k])
             IN  [pattern |-> k,
                  quantity |-> parseInt(m.caps[1]),
                  itemName |-> trim(m.caps[2]),
                  isAdding |-> isAddingOf(lowerCommand)]

----------------------------------------------------------------------------
(* The transcripts the speech engine delivers in the model. *)

Transcripts == {
    "I used 5 syringes",
    "Add 10 gloves to inventory",
    "Used 2 vials of lidocaine",
    "remove 4 lidocaine",
    "remove 3 bandaids",
    "xyz please help",
    "used 20 lidocaine",
    "used 3 padded gloves",
    "2 padded gloves used",
    "remove 1 lido",
    "used 1 sample item",
    "remove 2 gauze used 1 gloves" }

\* Interpret, computed once for each transcript.
Intent == [t \in Transcripts |-> Interpret(t)]

\* The item-name fragments the transcripts yield.
Fragments == {Intent[t].itemName : t \in Transcripts}

----------------------------------------------------------------------------
(* The component's state.                                                  *)
(* The status line and the transcript box hold the text the template       *)
(* literals build; "[ok]", "[x]" and "->" stand for the check mark, the    *)
(* cross mark and the arrow of the source, which are not ASCII.            *)

\* useState(null) of updatedItemId: no item id is 0.
null == 0

\* useState([...]) of inventory; lastUpdated: new Date() at mount, time 0.
InitialInventory == <<
    [id |-> 1, name |-> "Syringes", quantity |-> 25, unit |-> "pieces",
     lowStock |-> 10, lastUpdated |-> 0],
    [id |-> 2, name |-> "Bandages", quantity |-> 15, unit |-> "rolls",
     lowStock |-> 5, lastUpdated |-> 0],
    [id |-> 3, name |-> "Lidocaine", quantity |-> 8, unit |-> "vials",
     lowStock |-> 3, lastUpdated |-> 0],
    [id |-> 4, name |-> "Gloves", quantity |-> 50, unit |-> "pairs",
     lowStock |-> 20, lastUpdated |-> 0],
    [id |-> 5, name |-> "Gauze", quantity |-> 12, unit |-> "packs",
     lowStock |-> 5, lastUpdated |-> 0] >>

IdlePrompt == "Click the button and speak your inventory update"
ListeningStatus == "Listening... Speak your command"
UnsupportedStatus ==
    "Speech recognition not supported. Please use Chrome, Edge, or Safari."
NotUnderstood ==
    "Could not understand command. Try: \"I used 5 syringes\" or \"Add 10 gloves\""

\* setTranscript(`You said: "${voiceTranscript}"`)
YouSaid(voiceTranscript) == "You said: \"" \o voiceTranscript \o "\""

\* event.error of the error events the model delivers.
ErrorCodes == {"no-speech", "network"}

\* The inventory that updateInventory reads. recognition.onresult is assigned
\* once, by the effect of the first render (dependency list []), and calls
\* that render's processVoiceCommand, which calls that render's
\* updateInventory: the `inventory` they read is the first render's, the
\* initial state, whatever the ledger has become since.
handlerInventory == InitialInventory

\* Array.prototype.join(', ') of the names of ledger[k..]
RECURSIVE joinNames(_, _)
joinNames(ledger, k) ==
    IF k > Len(ledger) THEN ""
    ELSE IF k = Len(ledger) THEN ledger[k].name
    ELSE ledger[k].name \o ", " \o joinNames(ledger, k + 1)

----------------------------------------------------------------------------
(* The setters of useState: React drops an update of a component that is   *)
(* no longer mounted.                                                      *)

setInventory(value) == inventory' = IF mounted THEN value ELSE inventory
setIsListening(value) == isListening' = IF mounted THEN value ELSE isListening
setTranscript(value) == transcript' = IF mounted THEN value ELSE transcript
setStatus(value) == status' = IF mounted THEN value ELSE status
setUpdatedItemId(value) ==
    updatedItemId' = IF mounted THEN value ELSE updatedItemId

----------------------------------------------------------------------------
(* The reconciler: updateInventory. *)

\* The predicate with one direction only: itemName contains the name.
nameMatches_OneDirection(inv, itemName) ==
    includes(itemName, toLowerCase(inv.name))

\* The predicate of inventory.find: the item's lowercased name contains
\* itemName, or itemName contains the item's lowercased name.
nameMatches(inv, itemName) ==
    \/ includes(toLowerCase(inv.name), itemName)
    \/ includes(itemName, toLowerCase(inv.name))

\* Array.prototype.find over ledger: the position of the first item that
\* satisfies the predicate, or 0 when find returns undefined.
find(ledger, itemName) ==
    IF \E i \in 1..Len(ledger) : nameMatches(ledger[i], itemName)
    THEN Min({i \in 1..Len(ledger) : nameMatches(ledger[i], itemName)})
    ELSE 0

\* newQuantityOf without Math.max(0, ...).
newQuantityOf_Unclamped(q, quantity, isAdding) ==
    IF isAdding THEN q + quantity ELSE q - quantity

\* isAdding ? q + quantity : Math.max(0, q - quantity)
newQuantityOf(q, quantity, isAdding) ==
    IF isAdding THEN q + quantity ELSE Max({0, q - quantity})

\* mapUpdate computing the new quantity from the item the handler found
\* instead of the item of prevInventory.
mapUpdate_FromFoundItem(prevInventory, itemId, quantity, isAdding, at) ==
    [i \in 1..Len(prevInventory) |->
        IF prevInventory[i].id = itemId
        THEN [prevInventory[i] EXCEPT
                 !.quantity = newQuantityOf(
                     handlerInventory[CHOOSE k \in 1..Len(handlerInventory) :
                                         handlerInventory[k].id = itemId].quantity,
                     quantity, isAdding),
                 !.lastUpdated = at]
        ELSE prevInventory[i]]

\* mapUpdate stamping lastUpdated on the items it does not update as well.
mapUpdate_TouchAll(prevInventory, itemId, quantity, isAdding, at) ==
    [i \in 1..Len(prevInventory) |->
        IF prevInventory[i].id = itemId
        THEN [prevInventory[i] EXCEPT
                 !.quantity = newQuantityOf(prevInventory[i].quantity, quantity, isAdding),
                 !.lastUpdated = at]
        ELSE [prevInventory[i] EXCEPT !.lastUpdated = at]]

\* prevInventory.map(inv => inv.id === item.id ? {...} : inv), at time at.
mapUpdate(prevInventory, itemId, quantity, isAdding, at) ==
    [i \in 1..Len(prevInventory) |->
        IF prevInventory[i].id = itemId
        THEN [prevInventory[i] EXCEPT
                 !.quantity = newQuantityOf(prevInventory[i].quantity, quantity, isAdding),
                 !.lastUpdated = at]
        ELSE prevInventory[i]]

\* The status of a successful update, printed from the item the handler found.
updatedStatus(item, quantity, isAdding) ==
    "[ok] " \o (IF isAdding THEN "Added" ELSE "Used") \o " "
        \o NumberToString(quantity) \o " " \o item.name \o ". Stock: "
        \o NumberToString(item.quantity) \o " -> "
        \o NumberToString(newQuantityOf(item.quantity, quantity, isAdding))

\* The status of a command whose item is not found.
notFoundStatus(ledger, itemName) ==
    "[x] Item \"" \o itemName \o "\" not found. Available items: "
        \o joinNames(ledger, 1)

\* find over the handler's inventory, computed once for each fragment.
found == [itemName \in Fragments |-> find(handlerInventory, itemName)]

updateInventory(itemName, quantity, isAdding) ==
    LET idx == found[itemName]
    IN  IF idx /= 0
        THEN LET item == handlerInventory[idx]
             IN  /\ setInventory(mapUpdate(inventory, item.id, quantity, isAdding, now'))
                 /\ setStatus(updatedStatus(item, quantity, isAdding))
                 /\ setUpdatedItemId(item.id)
                 /\ timers' = timers + 1
        ELSE /\ setStatus(notFoundStatus(handlerInventory, itemName))
             /\ UNCHANGED <<inventory, updatedItemId, timers>>

----------------------------------------------------------------------------
(* The handlers. Each is one step: React renders the state a handler     *)
(* has set before the next event is handled, so the click handlers          *)
(* (toggleVoiceRecognition, addSampleItem), which every render creates      *)
(* anew, read the current state, while the recognition callbacks keep the   *)
(* first render's.                                                          *)

\* recognition.onstart
onstart ==
    /\ recognition = "starting"
    /\ recognition' = "listening"
    /\ setIsListening(TRUE)
    /\ setStatus(ListeningStatus)
    /\ setTranscript("Listening for your voice command...")
    /\ UNCHANGED <<inventory, updatedItemId, timers, now, startThrew, alerted,
                   mounted>>
    /\ UNCHANGED storeVars

\* processVoiceCommand without its if (!matched) branch.
processVoiceCommand_NoFallback(command) ==
    LET intent == Intent[command]
    IN  IF intent.pattern /= 0
        THEN updateInventory(intent.itemName, intent.quantity, intent.isAdding)
        ELSE UNCHANGED <<inventory, status, updatedItemId, timers>>

\* processVoiceCommand(command)
processVoiceCommand(command) ==
    LET intent == Intent[command]
    IN  IF intent.pattern /= 0
        THEN updateInventory(intent.itemName, intent.quantity, intent.isAdding)
        ELSE /\ setStatus(NotUnderstood)
             /\ UNCHANGED <<inventory, updatedItemId, timers>>

\* The session after a final result were recognition.continuous true: it
\* goes on listening.
sessionAfterResult_Continuous == "listening"

\* recognition.continuous = false: the session ends after its final result.
sessionAfterResult == "ending"

\* recognition.onresult with the final transcript voiceTranscript.
onresult(voiceTranscript) ==
    /\ recognition \in {"listening", "stopping"}
    /\ now < MaxClock
    /\ now' = now + 1
    /\ setTranscript(YouSaid(voiceTranscript))
    /\ processVoiceCommand(voiceTranscript)
    /\ recognition' = sessionAfterResult
    /\ UNCHANGED <<isListening, startThrew, alerted, mounted>>
    /\ UNCHANGED storeVars

\* recognition.onend
onend ==
    /\ recognition \in {"stopping", "ending", "aborted"}
    /\ recognition' = "idle"
    /\ setIsListening(FALSE)
    /\ setStatus(IdlePrompt)
    /\ UNCHANGED <<inventory, transcript, updatedItemId, timers, now, startThrew,
                   alerted, mounted>>
    /\ UNCHANGED storeVars

\* recognition.onerror without its setStatus.
onerror_KeepsStatus(error) ==
    /\ recognition \in {"starting", "listening"}
    /\ recognition' = "ending"
    /\ setTranscript("Error occurred. Please try again.")
    /\ setIsListening(FALSE)
    /\ UNCHANGED <<inventory, status, updatedItemId, timers, now, startThrew,
                   alerted, mounted>>
    /\ UNCHANGED storeVars

\* recognition.onerror; the end event follows.
onerror(error) ==
    /\ recognition \in {"starting", "listening"}
    /\ recognition' = "ending"
    /\ setStatus("Error: " \o error)
    /\ setTranscript("Error occurred. Please try again.")
    /\ setIsListening(FALSE)
    /\ UNCHANGED <<inventory, updatedItemId, timers, now, startThrew, alerted,
                   mounted>>
    /\ UNCHANGED storeVars

\* toggleVoiceRecognition, the click handler of the current render: an
\* alert when there is no recognition object; otherwise stop() when
\* listening, start() when not. start() on a session that is not idle throws
\* InvalidStateError; stop() on a session that is already stopping or ending
\* does nothing.
toggleVoiceRecognition ==
    /\ mounted
    /\ IF recognition = "none"
       THEN /\ alerted' = TRUE
            /\ UNCHANGED <<recognition, startThrew>>
       ELSE IF isListening
       THEN /\ recognition' = IF recognition = "listening" THEN "stopping"
                              ELSE recognition
            /\ UNCHANGED <<startThrew, alerted>>
       ELSE IF recognition = "idle"
       THEN /\ recognition' = "starting"
            /\ UNCHANGED <<startThrew, alerted>>
       ELSE /\ startThrew' = TRUE
            /\ UNCHANGED <<recognition, alerted>>
    /\ UNCHANGED <<inventory, isListening, transcript, status, updatedItemId,
                   timers, now, mounted>>
    /\ UNCHANGED storeVars

\* The id of the first item in place of the greatest id.
maxId_First(ledger) == ledger[1].id

\* Math.max(...inventory.map(i => i.id))
maxId(ledger) == Max({ledger[i].id : i \in 1..Len(ledger)})

\* addSampleItem, the click handler of the current render.
addSampleItem ==
    /\ mounted
    /\ now < MaxClock
    /\ now' = now + 1
    /\ inventory' = Append(inventory,
           [id |-> maxId(inventory) + 1,
            name |-> "Sample Item " \o NumberToString(Len(inventory) + 1),
            quantity |-> 20, unit |-> "pieces", lowStock |-> 5,
            lastUpdated |-> now'])
    /\ UNCHANGED <<isListening, transcript, status, updatedItemId, recognition,
                   timers, startThrew, alerted, mounted>>
    /\ UNCHANGED storeVars

\* setTimeout(() => setUpdatedItemId(null), 2000)
highlightTimeout ==
    /\ timers > 0
    /\ timers' = timers - 1
    /\ setUpdatedItemId(null)
    /\ UNCHANGED <<inventory, isListening, transcript, status, recognition,
                   now, startThrew, alerted, mounted>>
    /\ UNCHANGED storeVars

\* abort() left out of the cleanup.
abort_Missing(session) == session

\* recognitionRef.current.abort(): a session that is under way stops at
\* once, delivers no result and fires its end event.
abort(session) == IF session = "idle" THEN "idle" ELSE "aborted"

\* The cleanup of the mount effect, run when the component unmounts.
unmount ==
    /\ mounted
    /\ mounted' = FALSE
    /\ recognition' = IF recognition = "none" THEN "none"
                      ELSE abort(recognition)
    /\ UNCHANGED <<inventory, isListening, transcript, status, updatedItemId,
                   timers, now, startThrew, alerted>>
    /\ UNCHANGED storeVars

----------------------------------------------------------------------------
(* What the render shows of the ledger. *)

\* The low-stock test with < in place of <=.
isLowStock_Strict(item) == item.quantity < item.lowStock

\* item.quantity <= item.lowStock: the quantity is shown in red with the
\* warning sign, and the item is listed in the low-stock alerts.
isLowStock(item) == item.quantity <= item.lowStock

\* inventory.filter(item => item.quantity <= item.lowStock): the names in
\* the "Low Stock Alerts" box.
lowStockAlerts(ledger) ==
    {ledger[i].name : i \in {k \in 1..Len(ledger) : isLowStock(ledger[k])}}

----------------------------------------------------------------------------
(* The specification. *)

Init ==
    /\ inventory = InitialInventory
    /\ isListening = FALSE
    /\ transcript = "Your voice command will appear here..."
    /\ updatedItemId = null
    /\ recognition \in {"idle", "none"}
    /\ status = IF recognition = "none" THEN UnsupportedStatus ELSE IdlePrompt
    /\ timers = 0
    /\ now = 0
    /\ startThrew = FALSE
    /\ alerted = FALSE
    /\ mounted = TRUE
    /\ store = <<>>
    /\ pending = <<>>
    /\ loading = FALSE

Result == \E t \in Transcripts : onresult(t)

Error == \E e \in ErrorCodes : onerror(e)

Next ==
    \/ toggleVoiceRecognition
    \/ onstart
    \/ Result
    \/ Error
    \/ onend
    \/ addSampleItem
    \/ highlightTimeout
    \/ unmount

Spec == Init /\ [][Next]_vars

\* The speech engine fires the end event of every session that has
\* delivered its result, reported an error, been stopped or been aborted.
SpecFair == Spec /\ WF_vars(onend)

----------------------------------------------------------------------------
(* The store-backed component (the second VoiceInventoryApp of App.js).    *)
(* Its speech callbacks, toggleVoiceRecognition and cleanup are those      *)
(* above; its ledger is loaded from and written to a table of a remote     *)
(* store. A request to the store is answered by the store, and the code    *)
(* after its await (the continuation) runs later as a step of its own, in  *)
(* any order with the other events.                                        *)

\* const newItem = {name, quantity, unit, low_stock, last_updated} and the
\* id the store gives it: a row of the table.
toRow(id, newItem) ==
    [id |-> id, name |-> newItem.name, quantity |-> newItem.quantity,
     unit |-> newItem.unit, low_stock |-> newItem.low_stock,
     last_updated |-> newItem.last_updated]

\* formattedData, formattedItem: a row as a ledger item.
formatItem(row) ==
    [id |-> row.id, name |-> row.name, quantity |-> row.quantity,
     unit |-> row.unit, lowStock |-> row.low_stock,
     lastUpdated |-> row.last_updated]

\* The table when the component mounts: the items of the in-memory example.
SeededStore ==
    [i \in 1..Len(InitialInventory) |->
        [id |-> InitialInventory[i].id, name |-> InitialInventory[i].name,
         quantity |-> InitialInventory[i].quantity,
         unit |-> InitialInventory[i].unit,
         low_stock |-> InitialInventory[i].lowStock,
         last_updated |-> InitialInventory[i].lastUpdated]]

\* The inventory a recognition callback would read had the effect run
\* after the ledger was loaded.
handlerInventoryStore_Loaded == InitialInventory

\* The inventory the recognition callbacks read: that of the render whose
\* effect assigned them, the first, useState([]).
handlerInventoryStore == <<>>

\* find over the handler's inventory, computed once for each fragment.
foundStore == [itemName \in Fragments |-> find(handlerInventoryStore, itemName)]

setLoading(value) == loading' = IF mounted THEN value ELSE loading

\* The request of fetchInventory: select('*').order('created_at').
selectRequest == [op |-> "select", answered |-> FALSE, error |-> FALSE, data |-> <<>>]

\* pending without its k-th request.
Remove(requests, k) ==
    SubSeq(requests, 1, k - 1) \o SubSeq(requests, k + 1, Len(requests))

\* updateInventory (store-backed) up to its await: the item is looked up
\* in the handler's inventory, newQuantity is computed from that item, and
\* the update request is sent.
updateInventoryStore(itemName, quantity, isAdding) ==
    LET idx == foundStore[itemName]
    IN  IF idx /= 0
        THEN LET item == handlerInventoryStore[idx]
             IN  /\ pending' = Append(pending,
                        [op |-> "update", answered |-> FALSE, error |-> FALSE,
                         item |-> item, quantity |-> quantity,
                         isAdding |-> isAdding,
                         newQuantity |-> newQuantityOf(item.quantity, quantity,
                                                       isAdding),
                         last_updated |-> now'])
                 /\ UNCHANGED status
        ELSE /\ setStatus(notFoundStatus(handlerInventoryStore, itemName))
             /\ UNCHANGED pending

\* processVoiceCommand (store-backed)
processVoiceCommandStore(command) ==
    LET intent == Intent[command]
    IN  IF intent.pattern /= 0
        THEN updateInventoryStore(intent.itemName, intent.quantity,
                                  intent.isAdding)
        ELSE /\ setStatus(NotUnderstood)
             /\ UNCHANGED pending

\* recognition.onresult (store-backed)
onresultStore(voiceTranscript) ==
    /\ recognition \in {"listening", "stopping"}
    /\ now < MaxStoreClock
    /\ now' = now + 1
    /\ setTranscript(YouSaid(voiceTranscript))
    /\ processVoiceCommandStore(voiceTranscript)
    /\ recognition' = sessionAfterResult
    /\ UNCHANGED <<inventory, isListening, updatedItemId, timers, startThrew,
                   alerted, mounted, store, loading>>

\* addSampleItem (store-backed) up to its await, the click handler of the
\* current render: the insert request is sent.
addSampleItemStore ==
    /\ mounted
    /\ now < MaxStoreClock
    /\ now' = now + 1
    /\ pending' = Append(pending,
           [op |-> "insert", answered |-> FALSE, error |-> FALSE,
            newItem |-> [name |-> "Sample Item "
                                      \o NumberToString(Len(inventory) + 1),
                         quantity |-> 20, unit |-> "pieces", low_stock |-> 5,
                         last_updated |-> now'],
            inventory |-> inventory,
            data |-> <<>>])
    /\ UNCHANGED <<inventory, isListening, transcript, status, updatedItemId,
                   recognition, timers, startThrew, alerted, mounted, store,
                   loading>>

\* The key the store gives a new row.
newId(rows) == IF rows = <<>> THEN 1 ELSE maxId(rows) + 1

\* The store answers a request: with an error, or having executed it.
answer ==
    \E k \in 1..Len(pending) : \E fails \in BOOLEAN :
        LET r == pending[k]
        IN  /\ ~r.answered
            /\ IF fails
               THEN /\ pending' = [pending EXCEPT
                           ![k] = [r EXCEPT !.answered = TRUE, !.error = TRUE]]
                    /\ UNCHANGED store
               ELSE IF r.op = "select"
               THEN /\ pending' = [pending EXCEPT
                           ![k] = [r EXCEPT !.answered = TRUE, !.data = store]]
                    /\ UNCHANGED store
               ELSE IF r.op = "insert"
               THEN LET row == toRow(newId(store), r.newItem)
                    IN  /\ store' = Append(store, row)
                        /\ pending' = [pending EXCEPT
                               ![k] = [r EXCEPT !.answered = TRUE,
                                                !.data = <<row>>]]
               ELSE /\ store' = [i \in 1..Len(store) |->
                           IF store[i].id = r.item.id
                           THEN [store[i] EXCEPT
                                    !.quantity = r.newQuantity,
                                    !.last_updated = r.last_updated]
                           ELSE store[i]]
                    /\ pending' = [pending EXCEPT
                           ![k] = [r EXCEPT !.answered = TRUE]]
            /\ UNCHANGED <<inventory, isListening, transcript, status,
                           updatedItemId, recognition, timers, now, startThrew,
                           alerted, mounted, loading>>

\* fetchInventory after its await.
fetchInventoryDone(r) ==
    /\ IF r.error
       THEN /\ setStatus("Error loading inventory data")
            /\ UNCHANGED inventory
       ELSE /\ setInventory([i \in 1..Len(r.data) |-> formatItem(r.data[i])])
            /\ UNCHANGED status
    /\ setLoading(FALSE)
    /\ UNCHANGED <<updatedItemId, timers>>

\* addSampleItem (store-backed) after its await.
addSampleItemDone(r) ==
    /\ IF r.error
       THEN /\ setStatus("[x] Failed to add item. Please try again.")
            /\ UNCHANGED inventory
       ELSE /\ setInventory(Append(r.inventory, formatItem(r.data[1])))
            /\ setStatus("[ok] Added " \o r.data[1].name \o " to inventory")
    /\ UNCHANGED <<updatedItemId, timers, loading>>

\* updateInventory (store-backed) after its await.
updateInventoryDone(r) ==
    /\ IF r.error
       THEN /\ setStatus("[x] Failed to update " \o r.item.name
                             \o ". Please try again.")
            /\ UNCHANGED <<inventory, updatedItemId, timers>>
       ELSE /\ setInventory([i \in 1..Len(inventory) |->
                   IF inventory[i].id = r.item.id
                   THEN [inventory[i] EXCEPT !.quantity = r.newQuantity,
                                             !.lastUpdated = now]
                   ELSE inventory[i]])
            /\ setStatus(updatedStatus(r.item, r.quantity, r.isAdding))
            /\ setUpdatedItemId(r.item.id)
            /\ timers' = timers + 1
    /\ UNCHANGED loading

\* The continuation of an answered request runs.
resume ==
    \E k \in 1..Len(pending) :
        LET r == pending[k]
        IN  /\ r.answered
            /\ pending' = Remove(pending, k)
            /\ IF r.op = "select" THEN fetchInventoryDone(r)
               ELSE IF r.op = "insert" THEN addSampleItemDone(r)
               ELSE updateInventoryDone(r)
            /\ UNCHANGED <<isListening, transcript, recognition, now,
                           startThrew, alerted, mounted, store>>

\* The state after the mount effects: fetchInventory has sent its request.
InitStore ==
    /\ inventory = <<>>
    /\ isListening = FALSE
    /\ transcript = "Your voice command will appear here..."
    /\ updatedItemId = null
    /\ recognition \in {"idle", "none"}
    /\ status = IF recognition = "none" THEN UnsupportedStatus ELSE IdlePrompt
    /\ timers = 0
    /\ now = 0
    /\ startThrew = FALSE
    /\ alerted = FALSE
    /\ mounted = TRUE
    /\ store \in {<<>>, SeededStore}
    /\ pending = <<selectRequest>>
    /\ loading = TRUE

ResultStore == \E t \in Transcripts : onresultStore(t)

\* No step for the highlight timeout: the store-backed component sets one
\* only after a store write, and it sends none (StoreWriteNeverSent).
NextStore ==
    \/ toggleVoiceRecognition
    \/ onstart
    \/ ResultStore
    \/ Error
    \/ onend
    \/ addSampleItemStore
    \/ unmount
    \/ answer
    \/ resume

SpecStore == InitStore /\ [][NextStore]_vars

\* In the store-backed component no update request is ever sent and no
\* highlight timeout is ever set.
StoreWriteNeverSent ==
    /\ \A k \in 1..Len(pending) : pending[k].op /= "update"
    /\ timers = 0
    /\ updatedItemId = null

----------------------------------------------------------------------------
(* Vocabulary of the properties. *)

\* h contains n as a substring.
Contains(h, n) ==
    \E i \in 0..Len(h) : \E j \in i..Len(h) : SubSeq(h, i + 1, j) = n

\* The item's lowercased name contains the fragment, or the fragment
\* contains the item's lowercased name.
Containment(item, fragment) ==
    \/ Contains(toLowerCase(item.name), fragment)
    \/ Contains(fragment, toLowerCase(item.name))

\* The positions of the ledger items that the fragment matches.
Matching(ledger, fragment) ==
    {i \in 1..Len(ledger) : Containment(ledger[i], fragment)}

\* max(0, q - n)
ClampedDifference(q, n) == IF q >= n THEN q - n ELSE 0

\* The step processes a transcript that some pattern matches.
Understood(t) == onresult(t) /\ Intent[t].pattern /= 0

\* The step changes the ledger item at position i: a successful update
\* applied to it (its lastUpdated becomes the time of the step).
Touched(i) == inventory'[i] /= inventory[i]

\* The ledger items other than position k are what they were.
OthersUnchanged(k) ==
    /\ Len(inventory') = Len(inventory)
    /\ \A j \in 1..Len(inventory) : j /= k => inventory'[j] = inventory[j]

LidocaineAt == 3
GlovesAt == 4

----------------------------------------------------------------------------
(* C1 *)

\* C1: after any sequence of voice commands and item registrations every
\* ledger item's quantity is non-negative, and a Consume of N applied to an
\* item whose ledger quantity is Q leaves it at max(0, Q - N).
C1_ConsumeClampsAtZero ==
    /\ [](\A i \in 1..Len(inventory) : inventory[i].quantity >= 0)
    /\ [][\A t \in Transcripts :
            (Understood(t) /\ ~Intent[t].isAdding)
            => \A i \in 1..Len(inventory) :
                  Touched(i) =>
                      inventory'[i].quantity =
                          ClampedDifference(inventory[i].quantity, Intent[t].quantity)
         ]_vars

\* C1 witness: the first command is "used 20 lidocaine", on Lidocaine at 8,
\* and leaves it at 0.
C1_Witness ==
    /\ now = 1
    /\ transcript = YouSaid("used 20 lidocaine")
    /\ inventory[LidocaineAt].name = "Lidocaine"
    /\ InitialInventory[LidocaineAt].quantity = 8
    /\ inventory[LidocaineAt].quantity = 0

----------------------------------------------------------------------------
(* C2 *)

\* C2: a successful Add command with delta N on an item whose ledger
\* quantity is Q when the command is processed leaves it at exactly Q + N.
C2_AddIsExact ==
    [][\A t \in Transcripts :
            (Understood(t) /\ Intent[t].isAdding)
            => \A i \in 1..Len(inventory) :
                  Touched(i) =>
                      inventory'[i].quantity =
                          inventory[i].quantity + Intent[t].quantity
      ]_vars

\* C2 witness: two Add commands of 10 in a row have raised one item from 25
\* to 45.
C2_Witness ==
    /\ now = 2
    /\ transcript = YouSaid("Add 10 gloves to inventory")
    /\ \E i \in 1..Len(InitialInventory) :
          /\ InitialInventory[i].quantity = 25
          /\ inventory[i].quantity = 45

----------------------------------------------------------------------------
(* C3 *)

\* C3: "add <N> <rest>" with an optional trailing "to inventory" yields the
\* fragment <rest> without that suffix: on the seeded ledger (Gloves at 50)
\* "Add 10 gloves to inventory" yields the fragment "gloves" and raises
\* Gloves to 60, changing no other item.
C3_AddGlovesToInventory ==
    (now = 1 /\ transcript = YouSaid("Add 10 gloves to inventory"))
    => /\ Intent["Add 10 gloves to inventory"].itemName = "gloves"
       /\ inventory[GlovesAt].name = "Gloves"
       /\ inventory[GlovesAt].quantity = 60
       /\ \A j \in 1..Len(inventory) :
             j /= GlovesAt => inventory[j].quantity = InitialInventory[j].quantity

----------------------------------------------------------------------------
(* C4 *)

\* C4: item resolution uses bidirectional substring containment: a command
\* is applied only to an item whose lowercased name contains the fragment
\* or is contained in it, and it is applied to some item whenever the
\* ledger holds such an item ("lidocaine" and "vials of lidocaine" both
\* resolve to Lidocaine).
C4_BidirectionalContainment ==
    [][\A t \in Transcripts :
            Understood(t)
            => LET M == Matching(inventory, Intent[t].itemName)
               IN  /\ \A i \in 1..Len(inventory) : Touched(i) => i \in M
                   /\ M /= {} => \E i \in 1..Len(inventory) : Touched(i)
      ]_vars

----------------------------------------------------------------------------
(* C5 *)

\* C5 as claimed: a command with fragment "lido" does not resolve to
\* Lidocaine and leaves its quantity unchanged.
C5_LidoRejected ==
    [][(onresult("remove 1 lido") /\ Intent["remove 1 lido"].itemName = "lido")
            => inventory'[LidocaineAt] = inventory[LidocaineAt]
      ]_vars

\* C5, amended: the fragment "lido" is accepted for the item named
\* "Lidocaine", whose lowercased name contains it: "remove 1 lido" yields
\* the fragment "lido", resolves to Lidocaine and takes 1 from its quantity
\* (not below 0), changing no other item.
C5_LidoResolvesToLidocaine ==
    /\ [](Intent["remove 1 lido"].itemName = "lido")
    /\ [][onresult("remove 1 lido")
            => /\ inventory[LidocaineAt].name = "Lidocaine"
               /\ inventory'[LidocaineAt].quantity =
                      ClampedDifference(inventory[LidocaineAt].quantity, 1)
               /\ inventory'[LidocaineAt].lastUpdated = now'
               /\ updatedItemId' = inventory[LidocaineAt].id
               /\ Contains(status', "Used 1 Lidocaine")
               /\ OthersUnchanged(LidocaineAt)
         ]_vars

\* C5 witness: "remove 1 lido" has taken Lidocaine from 8 to 7.
C5_Witness ==
    /\ now = 1
    /\ transcript = YouSaid("remove 1 lido")
    /\ inventory[LidocaineAt].name = "Lidocaine"
    /\ inventory[LidocaineAt].quantity = 7

----------------------------------------------------------------------------
(* C6 *)

\* C6: when more than one ledger item matches the fragment, the item that
\* appears first in ledger order is the one, and the only one, mutated.
C6_FirstMatchWins ==
    [][\A t \in Transcripts :
            Understood(t)
            => LET M == Matching(inventory, Intent[t].itemName)
               IN  Cardinality(M) > 1
                   => /\ Touched(Min(M))
                      /\ OthersUnchanged(Min(M))
      ]_vars

----------------------------------------------------------------------------
(* C7 *)

\* C7: item resolution runs against the current ledger: once an item has
\* been registered, a later command whose fragment matches that item's name
\* and no earlier item's selects and mutates that item and does not report
\* not-found.
C7_ResolvesRegisteredItems ==
    [][\A t \in Transcripts :
            Understood(t)
            => LET M == Matching(inventory, Intent[t].itemName)
               IN  (M /= {} /\ Min(M) > Len(InitialInventory))
                   => /\ Touched(Min(M))
                      /\ ~Contains(status', "not found")
      ]_vars

----------------------------------------------------------------------------
(* C8 *)

\* C8: a transcript that matches none of the four patterns (such as "xyz
\* please help") never mutates the ledger and always yields the "could not
\* understand" status.
C8_UnrecognizedLeavesLedger ==
    /\ [](Intent["xyz please help"].pattern = 0)
    /\ [][\A t \in Transcripts :
            (onresult(t) /\ Intent[t].pattern = 0)
            => /\ inventory' = inventory
               /\ status' = NotUnderstood
         ]_vars

\* C8 witness: "xyz please help" has been processed, on a ledger that an
\* earlier command had changed.
C8_Witness ==
    /\ transcript = YouSaid("xyz please help")
    /\ status = NotUnderstood
    /\ recognition = "ending"
    /\ inventory /= InitialInventory

----------------------------------------------------------------------------
(* C9 *)

\* C9: when a pattern matches but no ledger item resolves the fragment, the
\* ledger is left unchanged and the status names the attempted fragment and
\* lists the names of all items currently in the ledger.
C9_NotFoundListsLedger ==
    [][\A t \in Transcripts :
            (Understood(t) /\ Matching(inventory, Intent[t].itemName) = {})
            => /\ inventory' = inventory
               /\ Contains(status', "\"" \o Intent[t].itemName \o "\"")
               /\ \A i \in 1..Len(inventory) :
                     Contains(status', inventory[i].name)
      ]_vars

----------------------------------------------------------------------------
(* C10 *)

\* What the interpreter makes of "used 3 adductor pads".
AdductorPads == Interpret("used 3 adductor pads")

\* The lowercased transcript holds "add" somewhere.
SaysAdd == [t \in Transcripts |-> Contains(toLowerCase(t), "add")]

\* C10: for every transcript that some pattern matches, the direction is
\* Add if and only if "add" occurs anywhere in the lowercased transcript,
\* whichever pattern matched, and Consume otherwise: the update adds the
\* delta and reports "Added", or takes it (not below 0) and reports "Used";
\* "used 3 adductor pads" is an Add.
C10_DirectionFromAddSubstring ==
    /\ [](/\ AdductorPads.pattern = 1
          /\ AdductorPads.itemName = "adductor pads"
          /\ AdductorPads.isAdding)
    /\ [](\A t \in Transcripts :
            Intent[t].pattern /= 0 => (Intent[t].isAdding <=> SaysAdd[t]))
    /\ [][\A t \in Transcripts :
            Understood(t)
            => \A i \in 1..Len(inventory) :
                  Touched(i) =>
                      IF SaysAdd[t]
                      THEN /\ inventory'[i].quantity =
                                  inventory[i].quantity + Intent[t].quantity
                           /\ Contains(status', "Added")
                      ELSE /\ inventory'[i].quantity =
                                  ClampedDifference(inventory[i].quantity,
                                                    Intent[t].quantity)
                           /\ Contains(status', "Used")
         ]_vars

\* C10 witness: "used 3 padded gloves", which the "used" pattern matches,
\* has added 3 to Gloves.
C10_Witness ==
    /\ now = 1
    /\ transcript = YouSaid("used 3 padded gloves")
    /\ Intent["used 3 padded gloves"].pattern = 1
    /\ ~Intent["I used 5 syringes"].isAdding
    /\ inventory[GlovesAt].name = "Gloves"
    /\ inventory[GlovesAt].quantity = InitialInventory[GlovesAt].quantity + 3

----------------------------------------------------------------------------
(* C11 *)

GauzeThenGloves == "remove 2 gauze used 1 gloves"

\* The patterns that match the lowercased transcript, each with what it
\* captures.
PatternsMatching ==
    [t \in Transcripts |->
        {k \in 1..Len(patterns) : match(toLowerCase(t), patterns[k]).ok}]

\* One command for each pattern, in the order used, remove, add,
\* "<N> <rest> used".
PatternOrder == <<"used 1 a", "remove 1 a", "add 1 a", "1 a used">>

\* Pattern k is the only one that matches the k-th of these commands.
PatternOrderHolds ==
    \A k \in 1..Len(patterns) :
        {j \in 1..Len(patterns) : match(PatternOrder[k], patterns[j]).ok} = {k}

\* For each transcript, the first of the patterns that match it with the
\* quantity and the fragment that pattern captures (pattern 0: none).
FirstMatch ==
    [t \in Transcripts |->
        LET K == PatternsMatching[t]
        IN  IF K = {} THEN [pattern |-> 0, quantity |-> 0, itemName |-> ""]
            ELSE LET caps == match(toLowerCase(t), patterns[Min(K)]).caps
                 IN  [pattern |-> Min(K),
                      quantity |-> parseInt(caps[1]),
                      itemName |-> trim(caps[2])]]

\* C11: the four patterns are tried in the order used, remove, add,
\* "<N> <rest> used"; the quantity and the fragment are the captures of the
\* first pattern that matches, and a transcript is reconciled at most once
\* even when several patterns match it: "remove 2 gauze used 1 gloves",
\* which the used, remove and "<N> <rest> used" patterns match, takes 1
\* from Gloves and nothing from Gauze.
C11_FirstPatternInOrder ==
    /\ [](PatternOrderHolds)
    /\ [](\A t \in Transcripts :
            /\ Intent[t].pattern = FirstMatch[t].pattern
            /\ Intent[t].pattern /= 0
               => /\ Intent[t].quantity = FirstMatch[t].quantity
                  /\ Intent[t].itemName = FirstMatch[t].itemName)
    /\ [](/\ PatternsMatching[GauzeThenGloves] = {1, 2, 4}
          /\ Intent[GauzeThenGloves].quantity = 1
          /\ Intent[GauzeThenGloves].itemName = "gloves")
    /\ [][\A t \in Transcripts :
            onresult(t)
            => /\ Cardinality({i \in 1..Len(inventory) : Touched(i)}) <= 1
               /\ Len(inventory') = Len(inventory)
               /\ timers' <= timers + 1
         ]_vars
    /\ [][onresult(GauzeThenGloves)
            => /\ inventory[GlovesAt].name = "Gloves"
               /\ inventory'[GlovesAt].quantity =
                      ClampedDifference(inventory[GlovesAt].quantity, 1)
               /\ OthersUnchanged(GlovesAt)
         ]_vars

\* C11 witness: "remove 2 gauze used 1 gloves" has taken Gloves from 50 to
\* 49 and left Gauze at 12.
C11_Witness ==
    /\ now = 1
    /\ transcript = YouSaid(GauzeThenGloves)
    /\ inventory[GlovesAt].quantity = 49
    /\ \E i \in 1..Len(inventory) :
          inventory[i].name = "Gauze" /\ inventory[i].quantity = 12

----------------------------------------------------------------------------
(* C13 *)

\* The step processes a transcript and reports a successful update.
Succeeded ==
    /\ \E t \in Transcripts : onresult(t)
    /\ SubSeq(status', 1, 4) = "[ok]"

\* Items a and b differ at most in quantity and lastUpdated.
SameButQuantity(a, b) ==
    /\ a.id = b.id
    /\ a.name = b.name
    /\ a.unit = b.unit
    /\ a.lowStock = b.lowStock

\* C13: a successful reconciliation sets the quantity and lastUpdated of
\* exactly one item and leaves every other item, that item's id, name, unit
\* and threshold, and the ledger's length and order as they were; the
\* lastUpdated of an item changes only in a successful reconciliation of
\* that item.
C13_UpdatesExactlyOneItem ==
    /\ [][Succeeded
            => \E k \in 1..Len(inventory) :
                  /\ inventory'[k].lastUpdated = now'
                  /\ inventory'[k].lastUpdated /= inventory[k].lastUpdated
                  /\ SameButQuantity(inventory'[k], inventory[k])
                  /\ OthersUnchanged(k)
         ]_vars
    /\ [][\A i \in 1..Len(inventory) :
            inventory'[i].lastUpdated /= inventory[i].lastUpdated
            => /\ Succeeded
               /\ Contains(status', inventory[i].name)
               /\ updatedItemId' = inventory[i].id
         ]_vars

\* C13 witness: an item was registered at time 1, and a command at time 2
\* has updated exactly one of the five items before it.
C13_Witness ==
    /\ now = 2
    /\ Len(inventory) = 6
    /\ inventory[6].lastUpdated = 1
    /\ SubSeq(status, 1, 4) = "[ok]"
    /\ Cardinality({i \in 1..Len(inventory) : inventory[i].lastUpdated = 2}) = 1
    /\ \E i \in 1..5 : inventory[i].quantity /= InitialInventory[i].quantity

----------------------------------------------------------------------------
(* C14 *)

\* C14: the ids of the ledger's items are pairwise distinct, no item's id
\* ever changes, and a registered item is appended with the id one above
\* the greatest id in the ledger.
C14_IdsDistinctAndStable ==
    /\ [](\A i, j \in 1..Len(inventory) :
            i /= j => inventory[i].id /= inventory[j].id)
    /\ [][\A i \in 1..Len(inventory) : inventory'[i].id = inventory[i].id]_vars
    /\ [][addSampleItem
            => /\ Len(inventory') = Len(inventory) + 1
               /\ \E i \in 1..Len(inventory) :
                     /\ inventory'[Len(inventory')].id = inventory[i].id + 1
                     /\ \A j \in 1..Len(inventory) :
                           inventory[j].id <= inventory[i].id
         ]_vars

\* C14 witness: two items have been registered, with the ids 6 and 7, after
\* the five seeded ones.
C14_Witness ==
    /\ Len(inventory) = 7
    /\ inventory[5].id = 5
    /\ inventory[6].id = 6
    /\ inventory[7].id = 7

----------------------------------------------------------------------------
(* C15 *)

\* C15: after a successful reconciliation the status reports the verb
\* (Added or Used), the delta, the item's name and the before -> after pair
\* where before is the item's ledger quantity immediately before the
\* command and after its ledger quantity immediately after it.
C15_StatusReportsBeforeAfter ==
    [][\A t \in Transcripts :
            Understood(t)
            => \A i \in 1..Len(inventory) :
                  Touched(i)
                  => /\ Contains(status', IF SaysAdd[t] THEN "Added" ELSE "Used")
                     /\ Contains(status', " " \o NumberToString(Intent[t].quantity)
                                              \o " " \o inventory[i].name)
                     /\ Contains(status',
                                 NumberToString(inventory[i].quantity) \o " -> "
                                     \o NumberToString(inventory'[i].quantity))
      ]_vars

----------------------------------------------------------------------------
(* C16 *)

\* C16: commands compose, each applying to the ledger the previous one
\* left: with Lidocaine at 8 and threshold 3, "Used 2 vials of lidocaine"
\* leaves it at 6, not flagged, and "remove 4 lidocaine" after it at 2,
\* flagged; in every state an item is flagged low-stock exactly when its
\* quantity is at most its threshold.
C16_CommandsComposeAndFlag ==
    /\ [](\A i \in 1..Len(inventory) :
            /\ isLowStock(inventory[i])
                   <=> inventory[i].quantity <= inventory[i].lowStock
            /\ inventory[i].name \in lowStockAlerts(inventory)
                   <=> inventory[i].quantity <= inventory[i].lowStock)
    /\ [](/\ inventory[LidocaineAt].name = "Lidocaine"
          /\ inventory[LidocaineAt].lowStock = 3
          /\ isLowStock(inventory[LidocaineAt])
                 <=> inventory[LidocaineAt].quantity <= 3)
    /\ [][(onresult("Used 2 vials of lidocaine")
              /\ inventory[LidocaineAt].quantity = 8)
            => /\ inventory'[LidocaineAt].quantity = 6
               /\ ~isLowStock(inventory'[LidocaineAt])
               /\ OthersUnchanged(LidocaineAt)
         ]_vars
    /\ [][(onresult("remove 4 lidocaine")
              /\ inventory[LidocaineAt].quantity = 6)
            => /\ inventory'[LidocaineAt].quantity = 2
               /\ isLowStock(inventory'[LidocaineAt])
               /\ "Lidocaine" \in lowStockAlerts(inventory')
               /\ OthersUnchanged(LidocaineAt)
         ]_vars

\* C16 witness: "Used 2 vials of lidocaine" and then "remove 4 lidocaine"
\* have taken Lidocaine from 8 to 2, where it is flagged.
C16_Witness ==
    /\ now = 2
    /\ transcript = YouSaid("remove 4 lidocaine")
    /\ inventory[LidocaineAt].quantity = 2
    /\ inventory[LidocaineAt].lastUpdated = 2
    /\ isLowStock(inventory[LidocaineAt])

----------------------------------------------------------------------------
(* C17 *)

\* The session is capturing speech: a result can come from it.
Capturing == recognition \in {"listening", "stopping"}

\* C17: capture is single-shot. A session captures only after the user has
\* activated it (a click that starts an idle session, then the start
\* event); the step that processes a transcript ends the capture, so that an
\* activation yields at most one processed transcript and none is processed
\* again before a new activation; and after a final transcript or an error
\* the session ends and the listening flag becomes false.
C17_SingleShotCapture ==
    /\ [][(\E t \in Transcripts : onresult(t))
            => /\ Capturing
               /\ ~Capturing'
               /\ recognition' = "ending"
         ]_vars
    /\ [][(Capturing' /\ ~Capturing) => (onstart /\ recognition = "starting")]_vars
    /\ [][(recognition' = "starting" /\ recognition /= "starting")
            => /\ toggleVoiceRecognition
               /\ recognition = "idle"
               /\ ~isListening
         ]_vars
    /\ [][(\E e \in ErrorCodes : onerror(e))
            => /\ recognition' = "ending"
               /\ mounted => ~isListening'
         ]_vars
    /\ (recognition = "ending")
           ~> (recognition = "idle" /\ (~isListening \/ ~mounted))

\* C17 witness: the second activation has delivered its transcript, the
\* session is ending and the listening flag is still set.
C17_Witness ==
    /\ now = 2
    /\ recognition = "ending"
    /\ isListening
    /\ mounted
    /\ transcript = YouSaid("remove 4 lidocaine")

----------------------------------------------------------------------------
(* C18 *)

\* C18: a speech error interprets no command and leaves the ledger as it
\* is, and the status reports the raw error code; on a platform without
\* speech support no command is ever interpreted, the ledger is changed by
\* registrations only, the status reports that speech recognition is not
\* supported, and a click on the voice button only raises the alert.
C18_ErrorOrUnsupported ==
    /\ [][\A e \in ErrorCodes :
            (onerror(e) /\ mounted)
            => /\ inventory' = inventory
               /\ status' = "Error: " \o e
               /\ transcript' = "Error occurred. Please try again."
               /\ updatedItemId' = updatedItemId
               /\ now' = now
         ]_vars
    /\ [](recognition = "none"
            => /\ status = UnsupportedStatus
               /\ transcript = "Your voice command will appear here..."
               /\ ~isListening
               /\ updatedItemId = null)
    /\ [][recognition = "none"
            => /\ recognition' = "none"
               /\ inventory' /= inventory => addSampleItem
               /\ ~(\E t \in Transcripts : onresult(t))
               /\ toggleVoiceRecognition => alerted'
         ]_vars

\* C18 witness: a network error has been reported after an earlier command
\* had changed the ledger.
C18_Witness ==
    /\ status = "Error: network"
    /\ transcript = "Error occurred. Please try again."
    /\ ~isListening
    /\ now = 1
    /\ inventory /= InitialInventory
    /\ Len(inventory) = Len(InitialInventory)

\* On a platform without speech support the voice button has been clicked
\* and an item registered.
C18_UnsupportedReached ==
    /\ recognition = "none"
    /\ alerted
    /\ Len(inventory) = Len(InitialInventory) + 1

----------------------------------------------------------------------------
(* C20 *)

\* C20: shutdown aborts the recognition: once the component is unmounted no
\* session is starting or capturing, no transcript is processed and the
\* ledger stays as it is, whether the component was idle, listening or had
\* reported an error when it was unmounted.
C20_ShutdownAborts ==
    /\ [](~mounted => recognition \in {"idle", "aborted", "none"})
    /\ [][~mounted
            => /\ ~(\E t \in Transcripts : onresult(t))
               /\ ~onstart
               /\ inventory' = inventory
               /\ transcript' = transcript
               /\ ~mounted'
         ]_vars
    /\ [][unmount
            => recognition' = IF recognition \in {"idle", "none"}
                              THEN recognition ELSE "aborted"
         ]_vars

\* C20 witness: the component was unmounted while listening, after a first
\* command; the aborted session has fired its end event.
C20_Witness ==
    /\ ~mounted
    /\ isListening
    /\ status = ListeningStatus
    /\ now = 1
    /\ recognition = "idle"

----------------------------------------------------------------------------
(* C19 *)

\* A reconciliation is under way: its store write has been sent and its
\* continuation has not run yet.
Reconciling == \E k \in 1..Len(pending) : pending[k].op = "update"

----------------------------------------------------------------------------
(* C21 *)

\* The status is the outcome of a listening session: a successful update,
\* an item not found, an unrecognized command or a recognition error.
IsOutcome(s) ==
    \/ SubSeq(s, 1, 4) = "[ok]"
    \/ SubSeq(s, 1, 3) = "[x]"
    \/ SubSeq(s, 1, 6) = "Error:"

\* C21: the outcome status of a listening session is still the status when
\* the session has ended and the listening flag is false: the end event
\* does not replace it with the idle prompt.
C21_OutcomeStatusSurvivesEnd ==
    [][(onend /\ mounted /\ IsOutcome(status))
            => /\ ~isListening'
               /\ status' = status
      ]_vars

----------------------------------------------------------------------------
(* C22 *)

\* The row was written after the component mounted (time 0).
WrittenSinceMount(row) == row.last_updated > 0

\* C22: in the store-backed component, whenever no request is under way,
\* the ledger agrees with the store: it holds every item inserted since
\* the component mounted, and every item it holds has the quantity of its
\* row in the store.
C22_LedgerAgreesWithStore ==
    (mounted /\ pending = <<>>)
    => /\ \A k \in 1..Len(store) :
             WrittenSinceMount(store[k])
             => \E i \in 1..Len(inventory) : inventory[i].id = store[k].id
       /\ \A i \in 1..Len(inventory) :
             \E k \in 1..Len(store) :
                /\ store[k].id = inventory[i].id
                /\ store[k].quantity = inventory[i].quantity

----------------------------------------------------------------------------
(* C24 *)

\* C24: the toggle never requests start on a session that has been started
\* and has not ended: a click that changes the session starts an idle one
\* or stops a listening one, and no start() is refused.
C24_ToggleStartsOnlyIdle ==
    /\ [][(toggleVoiceRecognition /\ recognition /= "none")
            => /\ startThrew' = startThrew
               /\ recognition' /= recognition
                  => \/ recognition = "idle" /\ recognition' = "starting"
                     \/ recognition = "listening" /\ recognition' = "stopping"
         ]_vars
    /\ [](~startThrew)

====
